---- MODULE Spec2Model ----
(***************************************************************************)
(* Model of the quadly backend core: the quadlet text parser and           *)
(* serializer (core/parser.rs), the semantic validator                     *)
(* (core/validator.rs), the type registry (models/quadlet_type.rs), the    *)
(* status reconciler and discovery (system/systemd.rs) and the artifact    *)
(* operations of the API (api/quadlet.rs, models/quadlet.rs).              *)
(*                                                                         *)
(* Strings whose characters the code inspects (texts, section names, keys, *)
(* values, file names, extensions) are sequences of one-character strings. *)
(* Strings the code only compares as a whole (raw activation states,       *)
(* finding tags) are TLA+ strings.                                         *)
(***************************************************************************)
EXTENDS Integers, Sequences, FiniteSets, TLC

VARIABLES
    \* ---- document pipeline (parser / serializer / validator)
    doc,        \* the in-memory Document handed to serialize_quadlet / validate
    lines,      \* the line list a hand-written text was rendered from
    content,    \* raw text (sequence of characters)
    parsed,     \* result of parse_quadlet(content)
    errors,     \* result of SemanticValidator::validate
    origin,     \* where content came from: "doc" (serializer) or "text" (written)
    dpc,        \* position of the document pipeline
    \* ---- type registry
    lookup,     \* the last registry lookup and its result
    \* ---- file store and unit manager seen by discovery and get_status
    dir_exists, \* whether the quadlet directory exists
    files,      \* the entries of the quadlet directory: file name -> entry
    disc,       \* the discovery pass: position, entries left, artifacts, queries
    gs,         \* the last direct call of get_status and what it returned
    \* ---- API
    api         \* the last artifact request handled and its outcome

docVars == <<doc, lines, content, parsed, errors, origin, dpc>>
sysVars == <<dir_exists, files, disc, gs>>
nonDocVars == <<lookup, dir_exists, files, disc, gs, api>>
nonRegVars == <<doc, lines, content, parsed, errors, origin, dpc,
                dir_exists, files, disc, gs, api>>
nonSysVars == <<doc, lines, content, parsed, errors, origin, dpc, lookup, api>>

vars == <<doc, lines, content, parsed, errors, origin, dpc, lookup,
          dir_exists, files, disc, gs, api>>

----------------------------------------------------------------------------
\* Bounds of the model

MaxValLen == 2      \* longest value of a Document given to the serializer
MaxLines == 3       \* most pair/header lines after the first header of a text
MaxFiles == 2       \* most entries of the quadlet directory at the start

----------------------------------------------------------------------------
\* String constants of the program, spelled as character sequences

sContainer == <<"C","o","n","t","a","i","n","e","r">>
sUnit == <<"U","n","i","t">>
sImage == <<"I","m","a","g","e">>
sContainerName == <<"C","o","n","t","a","i","n","e","r","N","a","m","e">>
sDescription == <<"D","e","s","c">>

\* the extension tokens of system/systemd.rs, lines 154 and 189
tContainer == <<"c","o","n","t","a","i","n","e","r">>
tNetwork == <<"n","e","t","w","o","r","k">>
tVolume == <<"v","o","l","u","m","e">>
tKube == <<"k","u","b","e">>
tPod == <<"p","o","d">>
tImage == <<"i","m","a","g","e">>
sDot == <<".">>
sDotService == <<".","s","e","r","v","i","c","e">>

\* the separator ", " of parser.rs
Separator == <<",", " ">>

----------------------------------------------------------------------------
\* Rust string primitives used by the code

\* char::is_whitespace, restricted to the ASCII white space
IsWhitespace(c) == c \in {" ", "\t", "\n", "\r"}

RECURSIVE trim_start(_)
trim_start(s) ==
    IF s = <<>> THEN <<>>
    ELSE IF IsWhitespace(Head(s)) THEN trim_start(Tail(s)) ELSE s

RECURSIVE trim_end(_)
trim_end(s) ==
    IF s = <<>> THEN <<>>
    ELSE IF IsWhitespace(s[Len(s)]) THEN trim_end(SubSeq(s, 1, Len(s) - 1)) ELSE s

\* str::trim
trim(s) == trim_end(trim_start(s))

\* str::starts_with
starts_with(s, p) == Len(p) <= Len(s) /\ SubSeq(s, 1, Len(p)) = p

\* str::ends_with
ends_with(s, p) == Len(p) <= Len(s) /\ SubSeq(s, Len(s) - Len(p) + 1, Len(s)) = p

\* str::contains(char)
contains_char(s, c) == \E i \in 1..Len(s) : s[i] = c

\* str::contains(&str)
contains_str(s, p) == \E i \in 0..(Len(s) - Len(p)) : SubSeq(s, i + 1, i + Len(p)) = p

\* str::split(pat): the pieces between the non-overlapping matches of pat, found
\* left to right; a string without a match (the empty one included) is one piece
RECURSIVE split_from(_, _, _)
split_from(s, pat, cur) ==
    IF s = <<>> THEN <<cur>>
    ELSE IF starts_with(s, pat)
         THEN <<cur>> \o split_from(SubSeq(s, Len(pat) + 1, Len(s)), pat, <<>>)
         ELSE split_from(Tail(s), pat, Append(cur, Head(s)))

split(s, pat) == split_from(s, pat, <<>>)

\* str::trim_end_matches(pat): the suffix pat removed as often as it matches
RECURSIVE trim_end_matches(_, _)
trim_end_matches(s, pat) ==
    IF pat # <<>> /\ ends_with(s, pat)
    THEN trim_end_matches(SubSeq(s, 1, Len(s) - Len(pat)), pat)
    ELSE s

RECURSIVE Flatten(_)
Flatten(ss) == IF ss = <<>> THEN <<>> ELSE Head(ss) \o Flatten(Tail(ss))

\* all sequences over S of length at most n
RECURSIVE SeqsUpTo(_, _)
SeqsUpTo(S, n) ==
    IF n = 0 THEN {<<>>}
    ELSE LET shorter == SeqsUpTo(S, n - 1)
         IN shorter \cup {Append(s, x) : s \in {t \in shorter : Len(t) = n - 1}, x \in S}

\* the orders in which a HashMap may iterate over the key set S
Orders(S) == {o \in [1..Cardinality(S) -> S] : \A x \in S : \E i \in DOMAIN o : o[i] = x}

EmptyMap == [x \in {} |-> <<>>]

----------------------------------------------------------------------------
\* core/parser.rs: serialize_quadlet

\* serialize_value with the empty pieces filtered out
serialize_value_skip_empty(key, value) ==
    LET pieces == SelectSeq(split(value, Separator), LAMBDA p : p # <<>>)
    IN Flatten([i \in 1..Len(pieces) |-> key \o <<"=">> \o pieces[i] \o <<"\n">>])

\* one "key=piece" line per piece of the value
serialize_value(key, value) ==
    LET pieces == split(value, Separator)
    IN Flatten([i \in 1..Len(pieces) |-> key \o <<"=">> \o pieces[i] \o <<"\n">>])

\* serialize_quadlet without the blank line that ends a section
serialize_quadlet_no_blank_line(data, sec_order, key_order) ==
    Flatten([i \in 1..Len(sec_order) |->
        LET section == sec_order[i]
            pairs == data[section]
            order == key_order[section]
        IN <<"[">> \o section \o <<"]", "\n">>
           \o Flatten([j \in 1..Len(order) |-> serialize_value(order[j], pairs[order[j]])])])

\* the serializer over one iteration order of the two HashMap levels:
\* sec_order lists the sections, key_order[s] the keys of section s
serialize_quadlet(data, sec_order, key_order) ==
    Flatten([i \in 1..Len(sec_order) |->
        LET section == sec_order[i]
            pairs == data[section]
            order == key_order[section]
        IN <<"[">> \o section \o <<"]", "\n">>
           \o Flatten([j \in 1..Len(order) |-> serialize_value(order[j], pairs[order[j]])])
           \o <<"\n">>])

\* the iteration orders a Document admits
SectionOrders(data) == Orders(DOMAIN data)
KeyOrders(data) ==
    {ko \in [DOMAIN data -> UNION {Orders(DOMAIN data[s]) : s \in DOMAIN data}] :
        \A s \in DOMAIN data : ko[s] \in Orders(DOMAIN data[s])}

----------------------------------------------------------------------------
\* core/quadlet.pest (the grammar file is not part of the sources; modelled
\* from the grammar the specification describes)

IsBlank(line) == \A i \in 1..Len(line) : IsWhitespace(line[i])

\* "[<name>]", <name> any text without brackets
IsHeader(line) ==
    /\ Len(line) >= 2
    /\ line[1] = "["
    /\ line[Len(line)] = "]"
    /\ \A i \in 2..(Len(line) - 1) : line[i] \notin {"[", "]"}

HeaderName(line) == SubSeq(line, 2, Len(line) - 1)

FirstIndex(s, c) == CHOOSE i \in 1..Len(s) : s[i] = c /\ \A j \in 1..(i - 1) : s[j] # c

\* "<key>=<value>": the key is the text before the first "=", the value the
\* remainder of the line
PairOf(line) ==
    LET eq == FirstIndex(line, "=")
    IN [key |-> SubSeq(line, 1, eq - 1), value |-> SubSeq(line, eq + 1, Len(line))]

RECURSIVE parse_lines(_, _)
parse_lines(ls, acc) ==
    IF ls = <<>> \/ ~acc.ok THEN acc
    ELSE LET l == Head(ls)
             n == Len(acc.records)
         IN parse_lines(Tail(ls),
                IF IsBlank(l) THEN acc
                ELSE IF l[1] = "["
                THEN IF IsHeader(l)
                     THEN [acc EXCEPT !.records =
                               Append(@, [name |-> HeaderName(l), pairs |-> <<>>])]
                     ELSE [acc EXCEPT !.ok = FALSE]
                ELSE IF n = 0 THEN acc    \* text before the first section is ignored
                ELSE IF contains_char(l, "=")
                THEN [acc EXCEPT !.records[n].pairs = Append(@, PairOf(l))]
                ELSE [acc EXCEPT !.ok = FALSE])

\* QuadletParser::parse(Rule::file, content): the sections of the text in
\* textual order, each with its pairs in textual order; empty input is an error
QuadletParser_parse(text) ==
    IF text = <<>> THEN [ok |-> FALSE, records |-> <<>>]
    ELSE parse_lines(split(text, <<"\n">>), [ok |-> TRUE, records |-> <<>>])

----------------------------------------------------------------------------
\* core/parser.rs: parse_quadlet

\* merge_value with the later occurrence replacing the earlier one
merge_value_overwrite(old, value) == value

\* .and_modify(|old| { if !old.is_empty() { old.push_str(", "); } old.push_str(&value); })
merge_value(old, value) ==
    IF old # <<>> THEN old \o Separator \o value ELSE old \o value

\* section_map.entry(key).and_modify(..).or_insert(value)
insert_pair(section_map, key, value) ==
    IF key \in DOMAIN section_map
    THEN [section_map EXCEPT ![key] = merge_value(@, value)]
    ELSE [k \in DOMAIN section_map \cup {key} |->
             IF k = key THEN value ELSE section_map[k]]

\* the value of a pair as the parser stores it: .as_str().trim()
pair_value(raw) == trim(raw)

RECURSIVE read_pairs(_, _)
read_pairs(section_map, pairs) ==
    IF pairs = <<>> THEN section_map
    ELSE read_pairs(insert_pair(section_map, Head(pairs).key, pair_value(Head(pairs).value)),
                    Tail(pairs))

\* read_section with the section inserted anew at every header
read_section_replace(data, record) ==
    LET filled == read_pairs(EmptyMap, record.pairs)
    IN [s \in DOMAIN data \cup {record.name} |->
           IF s = record.name THEN filled ELSE data[s]]

\* data.entry(section_name).or_default(), then the pairs of the record
read_section(data, record) ==
    LET section_map == IF record.name \in DOMAIN data THEN data[record.name] ELSE EmptyMap
        filled == read_pairs(section_map, record.pairs)
    IN [s \in DOMAIN data \cup {record.name} |->
           IF s = record.name THEN filled ELSE data[s]]

RECURSIVE read_records(_, _)
read_records(data, records) ==
    IF records = <<>> THEN data
    ELSE read_records(read_section(data, Head(records)), Tail(records))

parse_quadlet(text) ==
    LET file == QuadletParser_parse(text)
    IN IF ~file.ok THEN [ok |-> FALSE, data |-> EmptyMap]
       ELSE [ok |-> TRUE, data |-> read_records(EmptyMap, file.records)]

----------------------------------------------------------------------------
\* core/validator.rs: SemanticValidator::validate

ValidationError(field, message) == [field |-> field, message |-> message]

\* validate_image asking for a non-empty Image value as well
validate_image_non_empty(container_section) ==
    IF sImage \notin DOMAIN container_section \/ container_section[sImage] = <<>>
    THEN <<ValidationError("Container.Image",
             "La clave 'Image' es obligatoria para definir un contenedor.")>>
    ELSE <<>>

validate_image(container_section) ==
    IF sImage \notin DOMAIN container_section
    THEN <<ValidationError("Container.Image",
             "La clave 'Image' es obligatoria para definir un contenedor.")>>
    ELSE <<>>

\* validate_container_name evaluated only when the Image rule passed
validate_container_name_short_circuit(container_section) ==
    IF sImage \in DOMAIN container_section
       /\ sContainerName \in DOMAIN container_section
       /\ contains_char(container_section[sContainerName], " ")
    THEN <<ValidationError("Container.ContainerName",
             "El nombre del contenedor no puede contener espacios.")>>
    ELSE <<>>

validate_container_name(container_section) ==
    IF sContainerName \in DOMAIN container_section
       /\ contains_char(container_section[sContainerName], " ")
    THEN <<ValidationError("Container.ContainerName",
             "El nombre del contenedor no puede contener espacios.")>>
    ELSE <<>>

\* validate with the Global finding added to the findings of the other rules
validate_global_always(parsed_data) ==
    (IF sContainer \in DOMAIN parsed_data
     THEN validate_image(parsed_data[sContainer])
          \o validate_container_name(parsed_data[sContainer])
     ELSE <<>>)
    \o (IF sContainer \notin DOMAIN parsed_data \/ sImage \notin DOMAIN parsed_data[sContainer]
        THEN <<ValidationError("Global", "No se encontro la seccion obligatoria [Container].")>>
        ELSE <<>>)

validate(parsed_data) ==
    IF sContainer \in DOMAIN parsed_data
    THEN validate_image(parsed_data[sContainer])
         \o validate_container_name(parsed_data[sContainer])
    ELSE <<ValidationError("Global", "No se encontro la seccion obligatoria [Container].")>>

----------------------------------------------------------------------------
\* Inputs of the document pipeline

Alphabet == {"a", " ", ",", "\n"}
Values == SeqsUpTo(Alphabet, MaxValLen)

SectionMaps(keys, vals) == UNION {[K -> vals] : K \in SUBSET keys}

Docs ==
    LET containers == {EmptyMap} \cup
            {[s \in {sContainer} |-> m] : m \in SectionMaps({sImage, sContainerName}, Values)}
        units == {EmptyMap} \cup
            {[s \in {sUnit} |-> m] : m \in SectionMaps({sDescription}, {<<"a">>})}
    IN {[s \in DOMAIN c \cup DOMAIN u |-> IF s \in DOMAIN c THEN c[s] ELSE u[s]] :
            c \in containers, u \in units}

\* lines of a hand-written text
Header(name) == [kind |-> "header", name |-> name, value |-> <<>>]
Pair(key, raw) == [kind |-> "pair", name |-> key, value |-> raw]

RawValues == {<<>>, <<"a">>, <<" ", "b">>, <<" ">>}

LineKinds ==
    {Header(n) : n \in {sContainer, sUnit}}
    \cup {Pair(k, v) : k \in {sImage, sContainerName}, v \in RawValues}

Texts == {<<Header(sContainer)>> \o t : t \in SeqsUpTo(LineKinds, MaxLines)}

render_line(l) ==
    IF l.kind = "header" THEN <<"[">> \o l.name \o <<"]", "\n">>
    ELSE l.name \o <<"=">> \o l.value \o <<"\n">>

render(ls) == Flatten([i \in 1..Len(ls) |-> render_line(ls[i])])

----------------------------------------------------------------------------
\* The document pipeline

DocIdle ==
    /\ doc = EmptyMap
    /\ lines = <<>>
    /\ content = <<>>
    /\ parsed = <<>>
    /\ errors = <<>>
    /\ origin = "none"
    /\ dpc = "start"

\* a caller builds a Document in memory
BuildDocument ==
    /\ dpc = "start"
    /\ \E d \in Docs : doc' = d
    /\ dpc' = "doc"
    /\ UNCHANGED <<lines, content, parsed, errors, origin>>
    /\ UNCHANGED nonDocVars

\* serialize_quadlet(&doc), under any iteration order of the maps
SerializeQuadlet ==
    /\ dpc = "doc"
    /\ \E so \in SectionOrders(doc), ko \in KeyOrders(doc) :
           content' = serialize_quadlet(doc, so, ko)
    /\ origin' = "doc"
    /\ dpc' = "text"
    /\ UNCHANGED <<doc, lines, parsed, errors>>
    /\ UNCHANGED nonDocVars

\* a user supplies a quadlet text
WriteText ==
    /\ dpc = "start"
    /\ \E ls \in Texts : lines' = ls /\ content' = render(ls)
    /\ origin' = "text"
    /\ dpc' = "text"
    /\ UNCHANGED <<doc, parsed, errors>>
    /\ UNCHANGED nonDocVars

\* parse_quadlet(&content)
ParseQuadlet ==
    /\ dpc = "text"
    /\ parsed' = <<parse_quadlet(content)>>
    /\ dpc' = "parsed"
    /\ UNCHANGED <<doc, lines, content, errors, origin>>
    /\ UNCHANGED nonDocVars

\* SemanticValidator::validate(&doc) on a Document built in memory
ValidateDocument ==
    /\ dpc = "doc"
    /\ errors' = <<validate(doc)>>
    /\ dpc' = "validated"
    /\ UNCHANGED <<doc, lines, content, parsed, origin>>
    /\ UNCHANGED nonDocVars

\* SemanticValidator::validate on the Document parse_quadlet returned
ValidateParsed ==
    /\ dpc = "parsed"
    /\ parsed[1].ok
    /\ errors' = <<validate(parsed[1].data)>>
    /\ dpc' = "done"
    /\ UNCHANGED <<doc, lines, content, parsed, origin>>
    /\ UNCHANGED nonDocVars


----------------------------------------------------------------------------
\* models/quadlet_type.rs: the type registry

QuadletTypes == {"Container", "Network", "Volume", "Kube", "Pod", "Image"}

None == <<>>
Some(x) == <<x>>

\* QuadletType::extension
extension(t) ==
    CASE t = "Container" -> sDot \o tContainer
      [] t = "Network" -> sDot \o tNetwork
      [] t = "Pod" -> sDot \o tPod
      [] t = "Image" -> sDot \o tImage
      [] t = "Volume" -> sDot \o tVolume
      [] t = "Kube" -> sDot \o tKube

\* from_extension matching the bare token as well as the dotted extension
from_extension_lenient(ext) ==
    CASE ext \in {sDot \o tContainer, tContainer} -> Some("Container")
      [] ext \in {sDot \o tNetwork, tNetwork} -> Some("Network")
      [] ext \in {sDot \o tPod, tPod} -> Some("Pod")
      [] ext \in {sDot \o tImage, tImage} -> Some("Image")
      [] ext \in {sDot \o tVolume, tVolume} -> Some("Volume")
      [] ext \in {sDot \o tKube, tKube} -> Some("Kube")
      [] OTHER -> None

\* QuadletType::from_extension
from_extension(ext) ==
    CASE ext = sDot \o tContainer -> Some("Container")
      [] ext = sDot \o tNetwork -> Some("Network")
      [] ext = sDot \o tPod -> Some("Pod")
      [] ext = sDot \o tImage -> Some("Image")
      [] ext = sDot \o tVolume -> Some("Volume")
      [] ext = sDot \o tKube -> Some("Kube")
      [] OTHER -> None

\* strings handed to from_extension: the six extensions and their variations
\* (without the dot, with a character dropped or replaced, with one added)
Variations(e) ==
    {e, Tail(e), e \o <<"x">>, <<"x">> \o e, sDot \o e, <<>>}
    \cup {SubSeq(e, 1, i - 1) \o SubSeq(e, i + 1, Len(e)) : i \in 1..Len(e)}
    \cup {[e EXCEPT ![i] = "X"] : i \in 1..Len(e)}

ExtensionStrings ==
    UNION {Variations(extension(t)) : t \in QuadletTypes}
    \cup {<<"b","o","g","u","s">>, <<".","t","x","t">>}

RegistryIdle == lookup = [op |-> "none"]

\* a caller asks for the extension of a kind and maps it back
Extension ==
    /\ \E t \in QuadletTypes :
          lookup' = [op |-> "extension", kind |-> t, ext |-> extension(t),
                     back |-> from_extension(extension(t))]
    /\ UNCHANGED nonRegVars

\* a caller asks for the kind of an extension string
FromExtension ==
    /\ \E e \in ExtensionStrings :
          lookup' = [op |-> "from_extension", ext |-> e, kind |-> from_extension(e)]
    /\ UNCHANGED nonRegVars

RegistryNext ==
    \/ Extension
    \/ FromExtension

----------------------------------------------------------------------------
\* system/systemd.rs: get_status

QuadletStatuses == {"Active", "Inactive", "Failed", "Activating", "Deactivating", "Unknown"}

\* raw activation states the unit manager may report
RawStates == {"active", "reloading", "activating", "inactive", "deactivating",
              "failed", "maintenance", "bogus-state", ""}

\* the fallible steps of the query, in the order of the code (each `?`)
QueryFailures == {"connect", "manager", "get_unit", "path", "build", "active_state"}

\* what the bus and the unit manager answer to one query: the step that fails,
\* or none and the raw activation state
Replies ==
    {[fail |-> f, raw |-> ""] : f \in QueryFailures}
    \cup {[fail |-> "none", raw |-> r] : r \in RawStates}

\* map_state with the transitional states given their own variants
map_state_transitional(state) ==
    CASE state \in {"active", "reloading"} -> "Active"
      [] state = "activating" -> "Activating"
      [] state = "inactive" -> "Inactive"
      [] state = "deactivating" -> "Deactivating"
      [] state = "failed" -> "Failed"
      [] OTHER -> "Unknown"

\* the match on state.as_str()
map_state(state) ==
    CASE state \in {"active", "reloading", "activating"} -> "Active"
      [] state \in {"inactive", "deactivating"} -> "Inactive"
      [] state = "failed" -> "Failed"
      [] OTHER -> "Unknown"

unit_name_of(name) == name \o sDotService

\* get_status with the error of the query mapped to Unknown
get_status_unknown_on_error(name, reply) ==
    IF reply.fail # "none" THEN "Unknown" ELSE map_state(reply.raw)

\* get_status(name), given the reply to its query for unit_name_of(name):
\* result.unwrap_or(QuadletStatus::Inactive)
get_status(name, reply) ==
    LET result == IF reply.fail # "none"
                  THEN [ok |-> FALSE, value |-> "Inactive"]
                  ELSE [ok |-> TRUE, value |-> map_state(reply.raw)]
    IN IF result.ok THEN result.value ELSE "Inactive"

----------------------------------------------------------------------------
\* system/systemd.rs: discover_quadlets

\* for ext in ["container", "network", "volume", "kube", "pod", "image"]
DiscoveryExtensions == <<tContainer, tNetwork, tVolume, tKube, tPod, tImage>>

QuadletInfo(name, kind, status) == [name |-> name, kind |-> kind, status |-> status]

\* the local `name` of the loop over the extensions: for the extension the
\* file name ends with, file_name.trim_end_matches(".<ext>")
RECURSIVE derive_name(_, _)
derive_name(file_name, exts) ==
    IF exts = <<>> THEN None
    ELSE LET suffix == sDot \o Head(exts)
         IN IF ends_with(file_name, suffix)
            THEN Some([name |-> trim_end_matches(file_name, suffix), ext |-> Head(exts)])
            ELSE derive_name(file_name, Tail(exts))

\* classify with the dotted extension looked up and an artifact whose status
\* query failed left out
RECURSIVE classify_answered(_, _, _)
classify_answered(file_name, exts, reply) ==
    IF exts = <<>> THEN [info |-> None, query |-> None]
    ELSE LET ext == Head(exts)
             suffix == sDot \o ext
         IN IF ends_with(file_name, suffix)
            THEN LET name == trim_end_matches(file_name, suffix)
                     quadlet_type == from_extension(suffix)
                 IN IF ext = tContainer /\ reply.fail # "none"
                    THEN [info |-> None, query |-> Some(name)]
                    ELSE [info |-> Some(QuadletInfo(name, quadlet_type[1],
                                      Some(IF ext = tContainer
                                           THEN get_status(name, reply)
                                           ELSE "Unknown"))),
                          query |-> IF ext = tContainer THEN Some(name) ELSE None]
            ELSE classify_answered(file_name, Tail(exts), reply)

\* the body of the loop over the extensions for one file name: the artifact
\* pushed (if any) and the name get_status was called with (if any)
RECURSIVE classify(_, _, _)
classify(file_name, exts, reply) ==
    IF exts = <<>> THEN [info |-> None, query |-> None]
    ELSE LET ext == Head(exts)
             suffix == sDot \o ext
         IN IF ends_with(file_name, suffix)
            THEN LET name == trim_end_matches(file_name, suffix)
                     quadlet_type == from_extension(ext)
                 IN IF quadlet_type # None
                    THEN [info |-> Some(QuadletInfo(name, quadlet_type[1],
                                      Some(IF ext = tContainer
                                           THEN get_status(name, reply)
                                           ELSE "Unknown"))),
                          query |-> IF ext = tContainer THEN Some(name) ELSE None]
                    ELSE classify(file_name, Tail(exts), reply)
            ELSE classify(file_name, Tail(exts), reply)

----------------------------------------------------------------------------
\* The quadlet directory and the callers of get_status and discover_quadlets

nWeb == <<"w","e","b">>
nData == <<"d","a","t","a">>
nNotes == <<"n","o","t","e","s">>
sTxt == <<"t","x","t">>

File(text) == [is_file |-> TRUE, content |-> text]
Directory == [is_file |-> FALSE, content |-> <<>>]

\* entries a quadlet directory may hold at the start
DirUniverse ==
    [n \in {nWeb \o sDot \o tContainer,
            nData \o sDot \o tVolume, nWeb \o sDot \o tNetwork,
            nWeb \o sDot \o tKube, nWeb \o sDot \o tPod, nWeb \o sDot \o tImage,
            nWeb \o sDot \o tContainer \o sDot \o tContainer,
            sDot \o tContainer, nNotes \o sDot \o sTxt} |-> File(<<>>)]
    @@ [n \in {nData \o sDot \o tContainer} |-> Directory]

Restrict(f, S) == [x \in S |-> f[x]]

InitialDirectories ==
    {Restrict(DirUniverse, S) : S \in {T \in SUBSET DOMAIN DirUniverse : Cardinality(T) <= MaxFiles}}

\* a discovery pass not started: answers[f] is what the unit manager holds for
\* the unit of entry f when the loop reaches f, previous the (name, kind) pairs
\* of the pass before this one
DiscIdle == [pc |-> "idle", pending |-> {}, scanned |-> {}, skipped |-> {},
             infos |-> <<>>, queried |-> <<>>, result |-> "none",
             answers |-> EmptyMap, previous |-> None, derived |-> EmptyMap]

GsIdle == [called |-> FALSE, waiting |-> FALSE]

\* what the unit manager answers while a pass runs
DiscoveryReplies ==
    {r \in Replies : r.fail \in {"none", "get_unit"} /\ r.raw \in {"", "active", "failed"}}

\* the (name, kind) pairs of a result
Pairs(infos) == {<<infos[i].name, infos[i].kind>> : i \in 1..Len(infos)}

SysIdle ==
    /\ dir_exists = FALSE
    /\ files = EmptyMap
    /\ disc = DiscIdle
    /\ gs = GsIdle

SysInit ==
    /\ \/ dir_exists = FALSE /\ files = EmptyMap
       \/ dir_exists = TRUE /\ files \in InitialDirectories
    /\ disc = DiscIdle
    /\ gs = GsIdle

StatusNames == {nWeb}

\* a caller calls get_status(name): the query for unit_name_of(name) is sent
\* and the call awaits the reply
GetStatusCall ==
    /\ ~gs.waiting
    /\ \E name \in StatusNames :
          gs' = [called |-> FALSE, waiting |-> TRUE, name |-> name,
                 unit |-> unit_name_of(name)]
    /\ UNCHANGED <<dir_exists, files, disc>>
    /\ UNCHANGED nonSysVars

\* the bus or the unit manager answers, and the awaiting get_status returns
GetStatus ==
    /\ gs.waiting
    /\ \E reply \in Replies :
          gs' = [called |-> TRUE, waiting |-> FALSE, name |-> gs.name, unit |-> gs.unit,
                 reply |-> reply, status |-> get_status(gs.name, reply)]
    /\ UNCHANGED <<dir_exists, files, disc>>
    /\ UNCHANGED nonSysVars

\* discover_quadlets up to the loop: the directory is missing (Ok, empty) or
\* read_dir opens it
DiscoverStart ==
    /\ disc.pc = "idle"
    /\ IF ~dir_exists
       THEN disc' = [disc EXCEPT !.pc = "returned", !.result = "Ok"]
       ELSE disc' = [disc EXCEPT !.pc = "loop", !.pending = DOMAIN files,
                                 !.scanned = DOMAIN files]
    /\ UNCHANGED <<dir_exists, files, gs>>
    /\ UNCHANGED nonSysVars

\* tokio::fs::read_dir(..).await? fails
DiscoverReadDirFails ==
    /\ disc.pc = "idle"
    /\ dir_exists
    /\ disc' = [disc EXCEPT !.pc = "returned", !.result = "Err"]
    /\ UNCHANGED <<dir_exists, files, gs>>
    /\ UNCHANGED nonSysVars

\* one iteration of the while loop: the entry next_entry yields is classified
DiscoverEntry ==
    /\ disc.pc = "loop"
    /\ \E file_name \in disc.pending, reply \in DiscoveryReplies, file_type_ok \in BOOLEAN :
          LET found == IF file_type_ok /\ files[file_name].is_file
                       THEN classify(file_name, DiscoveryExtensions, reply)
                       ELSE [info |-> None, query |-> None]
          IN disc' = [disc EXCEPT !.pending = @ \ {file_name},
                                  !.skipped = IF file_type_ok THEN @ ELSE @ \cup {file_name},
                                  !.infos = @ \o found.info,
                                  !.queried = @ \o found.query,
                                  !.answers = IF ends_with(file_name, sDot \o tContainer)
                                              THEN (file_name :> reply) @@ @
                                              ELSE @,
                                  !.derived =
                                     LET stem == IF file_type_ok /\ files[file_name].is_file
                                                 THEN derive_name(file_name, DiscoveryExtensions)
                                                 ELSE None
                                     IN IF stem = None THEN @
                                        ELSE (file_name :> stem[1]) @@ @]
    /\ UNCHANGED <<dir_exists, files, gs>>
    /\ UNCHANGED nonSysVars

\* entries.next_entry().await? fails
DiscoverNextEntryFails ==
    /\ disc.pc = "loop"
    /\ disc' = [disc EXCEPT !.pc = "returned", !.result = "Err"]
    /\ UNCHANGED <<dir_exists, files, gs>>
    /\ UNCHANGED nonSysVars

\* next_entry yields None: Ok(quadlet_infos)
DiscoverReturn ==
    /\ disc.pc = "loop"
    /\ disc.pending = {}
    /\ disc' = [disc EXCEPT !.pc = "returned", !.result = "Ok"]
    /\ UNCHANGED <<dir_exists, files, gs>>
    /\ UNCHANGED nonSysVars

\* the caller runs discover_quadlets once more, the directory as it was
DiscoverAgain ==
    /\ disc.pc = "returned"
    /\ disc.result = "Ok"
    /\ disc.previous = None
    /\ disc' = [DiscIdle EXCEPT !.previous = Some(Pairs(disc.infos))]
    /\ UNCHANGED <<dir_exists, files, gs>>
    /\ UNCHANGED nonSysVars

----------------------------------------------------------------------------
\* models/quadlet.rs and api/quadlet.rs: the artifact operations of the API

\* Quadlet::new(name, extension, content) -> Result<Quadlet> (the constructor
\* the handlers call is not part of the sources; modelled from the
\* specification: an extension outside the registry is an UnsupportedType
\* error, never a default kind)
Quadlet_new(name, ext, text) ==
    LET kind == from_extension(sDot \o ext)
    IN IF kind = None
       THEN [ok |-> FALSE, error |-> "UnsupportedType"]
       ELSE [ok |-> TRUE, quadlet |-> [name |-> name, kind |-> kind[1], content |-> text]]

\* Quadlet::full_name / the relative path save and delete join to the directory
full_name(quadlet) == quadlet.name \o extension(quadlet.kind)

\* the components of a path as the file system walks them: empty and "."
\* components are skipped, ".." leaves the component before it (and stays
\* when there is none: the parent of the quadlet directory)
RECURSIVE normalize(_, _)
normalize(comps, acc) ==
    IF comps = <<>> THEN acc
    ELSE LET c == Head(comps)
         IN IF c = <<>> \/ c = <<".">> THEN normalize(Tail(comps), acc)
            ELSE IF c = <<".", ".">> /\ acc # <<>> /\ acc[Len(acc)] # <<".", ".">>
                 THEN normalize(Tail(comps), SubSeq(acc, 1, Len(acc) - 1))
                 ELSE normalize(Tail(comps), Append(acc, c))

RECURSIVE join_path(_)
join_path(comps) ==
    IF comps = <<>> THEN <<>>
    ELSE IF Len(comps) = 1 THEN comps[1]
    ELSE comps[1] \o <<"/">> \o join_path(Tail(comps))

\* the file dir.join(rel) names, relative to the quadlet directory
resolve(rel) == join_path(normalize(split(rel, <<"/">>), <<>>))

\* the directory that holds the file exists: the quadlet directory itself, its
\* parent, or a subdirectory that is an entry of the store
parent_exists(fs, target) ==
    LET comps == split(target, <<"/">>)
        parent == join_path(SubSeq(comps, 1, Len(comps) - 1))
    IN \/ Len(comps) = 1
       \/ parent = <<".", ".">>
       \/ parent \in DOMAIN fs /\ ~fs[parent].is_file

FsOp(op, path) == [op |-> op, path |-> path]

Response(status, message, about) == [status |-> status, message |-> message, about |-> about]

Call(call, ok) == [call |-> call, ok |-> ok]

\* run_unit_action(name, "daemon-reload"): connect, manager proxy, reload
reload_steps(reload) ==
    CASE reload = "connect" -> <<Call("connect", FALSE)>>
      [] reload = "manager" -> <<Call("connect", TRUE), Call("manager", FALSE)>>
      [] reload = "reload" -> <<Call("connect", TRUE), Call("manager", TRUE),
                                Call("reload", FALSE)>>
      [] OTHER -> <<Call("connect", TRUE), Call("manager", TRUE), Call("reload", TRUE)>>

\* save_steps with the reload issued whatever the write returned
save_steps_reload_always(mkdir_ok, wrote, reload) ==
    IF ~mkdir_ok THEN <<Call("create_dir_all", FALSE)>>
    ELSE <<Call("create_dir_all", TRUE), Call("write", wrote)>> \o reload_steps(reload)

\* the calls of save_quadlet after the artifact is built, in order:
\* Quadlet::save (create_dir_all, write), then run_unit_action
save_steps(mkdir_ok, wrote, reload) ==
    IF ~mkdir_ok THEN <<Call("create_dir_all", FALSE)>>
    ELSE IF ~wrote THEN <<Call("create_dir_all", TRUE), Call("write", FALSE)>>
    ELSE <<Call("create_dir_all", TRUE), Call("write", TRUE)>> \o reload_steps(reload)

UnitManagerCalls == {"connect", "manager", "reload"}

\* the names of the calls of steps made to the unit manager
RECURSIVE um_calls_of(_)
um_calls_of(steps) ==
    IF steps = <<>> THEN <<>>
    ELSE IF Head(steps).call \in UnitManagerCalls
         THEN <<Head(steps).call>> \o um_calls_of(Tail(steps))
         ELSE um_calls_of(Tail(steps))

\* Path::file_name: the last component, none when the path ends in ".."
file_name_of(rel) ==
    LET comps == normalize(split(rel, <<"/">>), <<>>)
    IN IF comps = <<>> \/ comps[Len(comps)] = <<".", ".">> THEN None
       ELSE Some(comps[Len(comps)])

\* str::rsplit_once(c): the text before and after the last c
rsplit_once(str, c) ==
    IF ~contains_char(str, c) THEN None
    ELSE LET i == CHOOSE i \in 1..Len(str) :
                     str[i] = c /\ \A j \in (i + 1)..Len(str) : str[j] # c
         IN Some(<<SubSeq(str, 1, i - 1), SubSeq(str, i + 1, Len(str))>>)

\* Quadlet::read(dir.join(rel)): name and extension from the file name, the
\* content from the file, the kind from the extension
Quadlet_read(fs, rel, io_ok) ==
    LET fname == file_name_of(rel)
        parts == IF fname = None THEN None ELSE rsplit_once(fname[1], ".")
    IN IF parts = None THEN [ok |-> FALSE, error |-> "InvalidInput"]
       ELSE LET target == resolve(rel)
                kind == from_extension(sDot \o parts[1][2])
            IN IF ~(io_ok /\ target \in DOMAIN fs /\ fs[target].is_file)
               THEN [ok |-> FALSE, error |-> "Io"]
               ELSE IF kind = None THEN [ok |-> FALSE, error |-> "InvalidData"]
               ELSE [ok |-> TRUE,
                     quadlet |-> [name |-> parts[1][1], kind |-> kind[1],
                                  content |-> fs[target].content]]

\* the entries read_dir(dir) yields
DirEntries(fs) == {f \in DOMAIN fs : ~contains_char(f, "/")}

\* Quadlet::read_all: the artifacts read from the regular files of the
\* directory; entries that cannot be read are left out, a missing or
\* unreadable directory gives none, a failing next_entry is the only error
read_all(fs, exists, next_ok, unreadable) ==
    IF ~next_ok /\ exists THEN [ok |-> FALSE, quadlets |-> {}]
    ELSE [ok |-> TRUE,
          quadlets |-> IF ~exists THEN {}
                       ELSE {Quadlet_read(fs, f, TRUE).quadlet :
                               f \in {g \in DirEntries(fs) \ unreadable :
                                         fs[g].is_file /\ Quadlet_read(fs, g, TRUE).ok}}]

ApiExtensions == {tContainer, tVolume, <<"b","o","g","u","s">>, sDot \o tContainer}
ApiNames == {nWeb, <<".", "/">> \o nWeb, <<".", ".", "/", "x">>}
ApiContents == {<<"x">>}

\* directories the API starts from
ApiDirectories ==
    {Restrict(DirUniverse, S) :
        S \in SUBSET {nWeb \o sDot \o tContainer, nData \o sDot \o tVolume}}

ApiInit ==
    /\ \/ dir_exists = FALSE /\ files = EmptyMap
       \/ dir_exists = TRUE /\ files \in ApiDirectories
    /\ disc = DiscIdle
    /\ gs = GsIdle
    /\ api = [op |-> "none"]

\* what can go wrong in one save: the first step that fails, if any
SaveFaults ==
    {[mkdir_ok |-> FALSE, write_ok |-> TRUE, reload |-> "none"],
     [mkdir_ok |-> TRUE, write_ok |-> FALSE, reload |-> "none"]}
    \cup {[mkdir_ok |-> TRUE, write_ok |-> TRUE, reload |-> r] :
             r \in {"connect", "manager", "reload", "none"}}

\* what a handler leaves behind: the request, the response, the file
\* operations (with the file each one addresses), the calls in order; read_back
\* and listed are filled by a later Quadlet::read / Quadlet::read_all
Outcome(op, ext, name, text, path, response, fs_ops, calls, panicked) ==
    [op |-> op, extension |-> ext, name |-> name, content |-> text, path |-> path,
     response |-> response, fs_ops |-> fs_ops, um_calls |-> um_calls_of(calls),
     calls |-> calls, panicked |-> panicked, read_back |-> None, listed |-> None]

\* GET /{extension}/{name}; quadlet.read() reads the file the artifact maps to
read_quadlet ==
    \E ext \in ApiExtensions, name \in ApiNames, io_ok \in BOOLEAN :
        LET made == Quadlet_new(name, ext, <<>>)
        IN /\ IF ~made.ok
              THEN api' = Outcome("read", ext, name, <<>>, <<>>,
                              Response("BAD_REQUEST", "Invalid quadlet type", <<ext>>),
                              <<>>, <<>>, FALSE)
              ELSE LET path == resolve(full_name(made.quadlet))
                       found == io_ok /\ path \in DOMAIN files /\ files[path].is_file
                   IN api' = Outcome("read", ext, name, <<>>, full_name(made.quadlet),
                                 IF found
                                 THEN Response("OK", "quadlet", <<files[path].content>>)
                                 ELSE Response("NOT_FOUND", "Error", <<>>),
                                 <<FsOp("read", path)>>, <<Call("read", found)>>, FALSE)
           /\ UNCHANGED <<dir_exists, files, disc, gs>>
           /\ UNCHANGED <<doc, lines, content, parsed, errors, origin, dpc, lookup>>

\* POST /{extension}/{name}: Quadlet::save, then run_unit_action(name, "daemon-reload")
save_quadlet ==
    \E ext \in ApiExtensions, name \in ApiNames, text \in ApiContents,
       fault \in SaveFaults :
        LET made == Quadlet_new(name, ext, text)
            mkdir_ok == fault.mkdir_ok
            write_ok == fault.write_ok
            reload == fault.reload
        IN /\ IF ~made.ok
              THEN /\ api' = Outcome("save", ext, name, text, <<>>,
                                Response("BAD_REQUEST", "Error creating quadlet", <<name, ext>>),
                                <<>>, <<>>, FALSE)
                   /\ UNCHANGED <<dir_exists, files>>
              ELSE LET path == resolve(full_name(made.quadlet))
                       is_dir == path \in DOMAIN files /\ ~files[path].is_file
                       wrote == write_ok /\ ~is_dir /\ parent_exists(files, path)
                       steps == save_steps(mkdir_ok, wrote, reload)
                   IN IF ~mkdir_ok
                      THEN /\ api' = Outcome("save", ext, name, text, full_name(made.quadlet),
                                        Response("INTERNAL_SERVER_ERROR", "Error saving quadlet",
                                                 <<name, ext>>),
                                        <<FsOp("create_dir_all", <<>>)>>, steps, FALSE)
                           /\ UNCHANGED <<dir_exists, files>>
                      ELSE IF ~wrote
                      THEN /\ api' = Outcome("save", ext, name, text, full_name(made.quadlet),
                                        Response("INTERNAL_SERVER_ERROR", "Error saving quadlet",
                                                 <<name, ext>>),
                                        <<FsOp("create_dir_all", <<>>), FsOp("write", path)>>,
                                        steps, FALSE)
                           /\ dir_exists' = TRUE
                           /\ UNCHANGED files
                      ELSE /\ dir_exists' = TRUE
                           /\ files' = [f \in DOMAIN files \cup {path} |->
                                           IF f = path THEN File(text) ELSE files[f]]
                           /\ api' = Outcome("save", ext, name, text, full_name(made.quadlet),
                                        IF reload # "none"
                                        THEN Response("INTERNAL_SERVER_ERROR",
                                                 "Saved, but error with daemon reload", <<>>)
                                        ELSE Response("OK", "saved", <<text>>),
                                        <<FsOp("create_dir_all", <<>>), FsOp("write", path)>>,
                                        steps, FALSE)
           /\ UNCHANGED <<disc, gs>>
           /\ UNCHANGED <<doc, lines, content, parsed, errors, origin, dpc, lookup>>

\* DELETE /{extension}/{name}: Quadlet::new(..).unwrap(), then Quadlet::delete
delete_quadlet ==
    \E ext \in ApiExtensions, name \in ApiNames, io_ok \in BOOLEAN :
        LET made == Quadlet_new(name, ext, <<>>)
        IN /\ IF ~made.ok
              THEN \* unwrap() on Err panics: the handler ends without a response
                   /\ api' = Outcome("delete", ext, name, <<>>, <<>>,
                                Response("none", "", <<>>), <<>>, <<>>, TRUE)
                   /\ UNCHANGED files
              ELSE LET path == resolve(full_name(made.quadlet))
                       removed == io_ok /\ path \in DOMAIN files /\ files[path].is_file
                   IN /\ files' = IF removed THEN Restrict(files, DOMAIN files \ {path})
                                  ELSE files
                      /\ api' = Outcome("delete", ext, name, <<>>, full_name(made.quadlet),
                                    IF removed
                                    THEN Response("OK", "deleted", <<>>)
                                    ELSE Response("INTERNAL_SERVER_ERROR",
                                             "Error deleting quadlet", <<name, ext>>),
                                    <<FsOp("remove_file", path)>>,
                                    <<Call("remove_file", removed)>>, FALSE)
           /\ UNCHANGED <<dir_exists, disc, gs>>
           /\ UNCHANGED <<doc, lines, content, parsed, errors, origin, dpc, lookup>>

\* a caller reads the artifact of the last save or delete back with
\* Quadlet::read and lists the directory with Quadlet::read_all
ReadBack ==
    /\ api.op \in {"save", "delete"}
    /\ api.fs_ops # <<>>
    /\ api.read_back = None
    /\ \E io_ok \in BOOLEAN :
          api' = [api EXCEPT
                    !.read_back = Some([io_ok |-> io_ok,
                                        result |-> Quadlet_read(files, api.path, io_ok)]),
                    !.listed = Some(read_all(files, dir_exists, io_ok, {}))]
    /\ UNCHANGED <<dir_exists, files, disc, gs>>
    /\ UNCHANGED <<doc, lines, content, parsed, errors, origin, dpc, lookup>>

ApiIdle == api = [op |-> "none"]

----------------------------------------------------------------------------
\* models/quadlet.rs: two Quadlet::save calls on the same artifact at once

\* the byte a gap between the end of a file and a later write reads as
Nul == "NUL"

\* write with O_APPEND: the chunk goes to the end of the file
overlay_append(old, offset, chunk) == old \o chunk

\* the file after a write of chunk at offset: the bytes under the chunk are
\* replaced, the bytes after it kept, a gap before it filled with zero bytes
overlay(old, offset, chunk) ==
    LET len == IF Len(old) > offset + Len(chunk) THEN Len(old) ELSE offset + Len(chunk)
    IN [p \in 1..len |->
           IF p > offset /\ p <= offset + Len(chunk) THEN chunk[p - offset]
           ELSE IF p <= Len(old) THEN old[p] ELSE Nul]

\* the artifact both saves write, and the file it maps to
RaceQuadlet(text) == [name |-> nWeb, kind |-> "Container", content |-> text]
RacePath == resolve(full_name(RaceQuadlet(<<>>)))

SaveContents == {<<"x">>, <<"y", "z">>, <<"u", "v", "w">>}

Savers == {1, 2}

SaveStart(text) == [pc |-> "start", quadlet |-> RaceQuadlet(text), offset |-> 0]

RaceInit ==
    /\ \/ dir_exists = FALSE /\ files = EmptyMap
       \/ dir_exists = TRUE /\ files \in {EmptyMap, RacePath :> File(<<>>)}
    /\ disc = DiscIdle
    /\ gs = GsIdle
    /\ \E c1 \in SaveContents, c2 \in SaveContents :
          api = [op |-> "race", saves |-> <<SaveStart(c1), SaveStart(c2)>>]

\* tokio::fs::create_dir_all(&dir).await?
SaveCreateDir(i) ==
    /\ api.op = "race"
    /\ api.saves[i].pc = "start"
    /\ dir_exists' = TRUE
    /\ api' = [api EXCEPT !.saves[i].pc = "created"]
    /\ UNCHANGED <<files, disc, gs>>
    /\ UNCHANGED <<doc, lines, content, parsed, errors, origin, dpc, lookup>>

\* tokio::fs::write, first half: the file is created or truncated
SaveOpen(i) ==
    /\ api.op = "race"
    /\ api.saves[i].pc = "created"
    /\ files' = (RacePath :> File(<<>>)) @@ files
    /\ api' = [api EXCEPT !.saves[i].pc = "writing"]
    /\ UNCHANGED <<dir_exists, disc, gs>>
    /\ UNCHANGED <<doc, lines, content, parsed, errors, origin, dpc, lookup>>

\* tokio::fs::write, second half: one write call of write_all, which takes
\* some or all of the bytes that are left, at the offset of this save's handle
SaveWrite(i) ==
    /\ api.op = "race"
    /\ api.saves[i].pc = "writing"
    /\ LET save == api.saves[i]
           text == save.quadlet.content
       IN \E n \in 1..(Len(text) - save.offset) :
             /\ files' = [files EXCEPT ![RacePath] =
                            File(overlay(@.content, save.offset,
                                         SubSeq(text, save.offset + 1, save.offset + n)))]
             /\ api' = [api EXCEPT !.saves[i].offset = @ + n,
                                   !.saves[i].pc = IF save.offset + n = Len(text)
                                                   THEN "ok" ELSE "writing"]
    /\ UNCHANGED <<dir_exists, disc, gs>>
    /\ UNCHANGED <<doc, lines, content, parsed, errors, origin, dpc, lookup>>

\* any of the three calls returns an error: save returns Err
SaveFails(i) ==
    /\ api.op = "race"
    /\ api.saves[i].pc \in {"start", "created", "writing"}
    /\ api' = [api EXCEPT !.saves[i].pc = "err"]
    /\ UNCHANGED <<dir_exists, files, disc, gs>>
    /\ UNCHANGED <<doc, lines, content, parsed, errors, origin, dpc, lookup>>

----------------------------------------------------------------------------
\* api/quadlet.rs: the discover handler and its two filters

MaxFound == 2       \* most artifacts in a list handed to the filters

\* char::to_lowercase on the letters the filters of the model use
LowerOf(c) ==
    CASE c = "A" -> "a" [] c = "C" -> "c" [] c = "T" -> "t" [] c = "I" -> "i"
      [] c = "V" -> "v" [] c = "E" -> "e" [] c = "D" -> "d" [] OTHER -> c

to_lowercase(str) == [i \in 1..Len(str) |-> LowerOf(str[i])]

\* the match on status_filter.to_lowercase()
target_status(status_filter) ==
    LET lower == to_lowercase(status_filter)
    IN CASE lower = <<"a","c","t","i","v","e">> -> Some("Active")
         [] lower = <<"i","n","a","c","t","i","v","e">> -> Some("Inactive")
         [] lower = <<"f","a","i","l","e","d">> -> Some("Failed")
         [] lower = <<"a","c","t","i","v","a","t","i","n","g">> -> Some("Activating")
         [] lower = <<"d","e","a","c","t","i","v","a","t","i","n","g">> -> Some("Deactivating")
         [] lower = <<"u","n","k","n","o","w","n">> -> Some("Unknown")
         [] OTHER -> None

\* the kind filter: retain applied when from_extension(kind_filter) is Some
retain_kind(quadlets, kind_filter) ==
    IF kind_filter = None THEN quadlets
    ELSE LET quadlet_type == from_extension(kind_filter[1])
             keep(q) == q.kind = quadlet_type[1]
         IN IF quadlet_type = None THEN quadlets ELSE SelectSeq(quadlets, keep)

\* the status filter: retain applied when the lowercased filter names a status
retain_status(quadlets, status_filter) ==
    IF status_filter = None THEN quadlets
    ELSE LET target == target_status(status_filter[1])
             keep(q) == q.status = target
         IN IF target = None THEN quadlets ELSE SelectSeq(quadlets, keep)

\* artifacts of the shape discover_quadlets pushes: a container with the
\* status get_status returns for it, any other kind with Unknown
DiscoveredInfos ==
    {QuadletInfo(nWeb, "Container", Some(get_status(nWeb, reply))) : reply \in Replies}
    \cup {QuadletInfo(nData, "Volume", Some("Unknown")),
          QuadletInfo(nWeb, "Network", Some("Unknown"))}

\* what system::discover_quadlets() hands to the handler: an error, or any
\* list its return type Vec<QuadletInfo> admits, one artifact per file
DiscoverResults ==
    {[ok |-> FALSE, quadlets |-> <<>>]}
    \cup {[ok |-> TRUE, quadlets |-> l] :
             l \in {m \in SeqsUpTo(DiscoveredInfos, MaxFound) :
                      \A i, j \in 1..Len(m) :
                         (m[i].name = m[j].name /\ m[i].kind = m[j].kind) => i = j}}

KindFilters ==
    {None, Some(tContainer), Some(tVolume), Some(sDot \o tContainer),
     Some(<<"b","o","g","u","s">>)}

StatusFilters ==
    {None, Some(<<"a","c","t","i","v","e">>), Some(<<"A","C","T","I","V","E">>),
     Some(<<"u","n","k","n","o","w","n">>), Some(<<"b","o","g","u","s">>),
     Some(<<"a","c","t","i","v","a","t","i","n","g">>),
     Some(<<"D","e","a","c","t","i","v","a","t","i","n","g">>)}

\* GET /discover?kind=..&status=..
api_discover_quadlets ==
    /\ \E kind_filter \in KindFilters, status_filter \in StatusFilters,
          discovered \in DiscoverResults :
          api' = [op |-> "discover", kind |-> kind_filter, status |-> status_filter,
                  discovered |-> discovered,
                  response |->
                     IF discovered.ok
                     THEN [status |-> "OK",
                           quadlets |-> retain_status(
                                           retain_kind(discovered.quadlets, kind_filter),
                                           status_filter)]
                     ELSE [status |-> "INTERNAL_SERVER_ERROR", quadlets |-> <<>>]]
    /\ UNCHANGED <<dir_exists, files, disc, gs>>
    /\ UNCHANGED <<doc, lines, content, parsed, errors, origin, dpc, lookup>>

----------------------------------------------------------------------------
\* Specifications

DocInit == DocIdle /\ RegistryIdle /\ SysIdle /\ ApiIdle

DocNext ==
    \/ BuildDocument
    \/ SerializeQuadlet
    \/ WriteText
    \/ ParseQuadlet
    \/ ValidateDocument
    \/ ValidateParsed

DocSpec == DocInit /\ [][DocNext]_vars

RegistryInit == DocIdle /\ RegistryIdle /\ SysIdle /\ ApiIdle

RegistrySpec == RegistryInit /\ [][RegistryNext]_vars

Init == DocIdle /\ RegistryIdle /\ SysInit /\ ApiIdle

Next ==
    \/ GetStatusCall
    \/ DiscoverAgain
    \/ GetStatus
    \/ DiscoverStart
    \/ DiscoverReadDirFails
    \/ DiscoverEntry
    \/ DiscoverNextEntryFails
    \/ DiscoverReturn

Spec == Init /\ [][Next]_vars

\* the runtime runs every step a started discovery pass can take; nothing
\* obliges a caller to call nor the unit manager to answer
FairSpec == Spec /\ WF_vars(DiscoverStart \/ DiscoverEntry \/ DiscoverReturn)

ApiSpecInit == DocIdle /\ RegistryIdle /\ ApiInit

ApiNext ==
    \/ ReadBack
    \/ read_quadlet
    \/ save_quadlet
    \/ delete_quadlet

ApiSpec == ApiSpecInit /\ [][ApiNext]_vars

RaceSpecInit == DocIdle /\ RegistryIdle /\ RaceInit

RaceNext ==
    \E i \in Savers :
        \/ SaveCreateDir(i)
        \/ SaveOpen(i)
        \/ SaveWrite(i)
        \/ SaveFails(i)

RaceSpec == RaceSpecInit /\ [][RaceNext]_vars

FilterInit == DocIdle /\ RegistryIdle /\ SysIdle /\ ApiIdle

FilterNext == api_discover_quadlets

FilterSpec == FilterInit /\ [][FilterNext]_vars

----------------------------------------------------------------------------
\* Claims about the document pipeline (checked under DocSpec)

\* d and e have the same sections, the same keys in each and the same values
Equivalent(d, e) ==
    /\ DOMAIN d = DOMAIN e
    /\ \A s \in DOMAIN d :
          /\ DOMAIN d[s] = DOMAIN e[s]
          /\ \A k \in DOMAIN d[s] : d[s][k] = e[s][k]

AllValues(d, P(_)) == \A s \in DOMAIN d : \A k \in DOMAIN d[s] : P(d[s][k])

NoSeparator(v) == ~contains_str(v, Separator)
NoNewline(v) == ~contains_char(v, "\n")
NoSurroundingSpace(v) == trim(v) = v

RoundTripDone == dpc = "parsed" /\ origin = "doc"

\* C1 as stated: for every Document without ", " in a value, parsing the
\* serialized text succeeds and gives back an equivalent Document
C1_RoundTripAnyDocument ==
    (RoundTripDone /\ AllValues(doc, NoSeparator))
        => parsed[1].ok /\ Equivalent(parsed[1].data, doc)

\* C1 amended: for every Document with at least one section whose values
\* contain no ", ", no line break and no leading or trailing white space,
\* parsing the serialized text succeeds and gives back an equivalent Document,
\* under every iteration order of sections and keys
C1_RoundTrip ==
    (/\ RoundTripDone
     /\ doc # EmptyMap
     /\ AllValues(doc, NoSeparator)
     /\ AllValues(doc, NoNewline)
     /\ AllValues(doc, NoSurroundingSpace))
        => parsed[1].ok /\ Equivalent(parsed[1].data, doc)

C1_Witness ==
    /\ RoundTripDone
    /\ DOMAIN doc = {sContainer, sUnit}
    /\ DOMAIN doc[sContainer] = {sImage, sContainerName}
    /\ doc[sContainer][sImage] = <<>>
    /\ doc[sContainer][sContainerName] = <<"a", ",">>
    /\ DOMAIN doc[sUnit] = {sDescription}
    /\ parsed[1].ok
    /\ Equivalent(parsed[1].data, doc)

\* the trimmed values of the pair lines of key k that stand under a header
\* named s, in textual order
RECURSIVE Occurrences(_, _, _, _)
Occurrences(ls, cur, s, k) ==
    IF ls = <<>> THEN <<>>
    ELSE LET l == Head(ls)
         IN IF l.kind = "header" THEN Occurrences(Tail(ls), l.name, s, k)
            ELSE IF cur = s /\ l.name = k
                 THEN <<trim(l.value)>> \o Occurrences(Tail(ls), cur, s, k)
                 ELSE Occurrences(Tail(ls), cur, s, k)

RECURSIVE Join(_)
Join(vs) ==
    IF vs = <<>> THEN <<>>
    ELSE IF Len(vs) = 1 THEN vs[1]
    ELSE vs[1] \o Separator \o Join(Tail(vs))

\* vs without the empty values that precede its first non-empty value (the
\* last value is kept when all are empty)
RECURSIVE DropLeadingEmpty(_)
DropLeadingEmpty(vs) ==
    IF Len(vs) <= 1 THEN vs
    ELSE IF vs[1] = <<>> THEN DropLeadingEmpty(Tail(vs)) ELSE vs

TextParsed == dpc \in {"parsed", "done"} /\ origin = "text"

TextSections == {sContainer, sUnit}
TextKeys == {sImage, sContainerName}

\* C2 as stated: the value of a key that occurs n >= 1 times in a section is
\* v1, ..., vn joined by ", ", for every sequence of values, empty ones included
C2_MergeJoinsAll ==
    TextParsed =>
        /\ parsed[1].ok
        /\ \A s \in TextSections, k \in TextKeys :
              LET vs == Occurrences(lines, <<>>, s, k)
              IN Len(vs) >= 1 =>
                    /\ s \in DOMAIN parsed[1].data
                    /\ k \in DOMAIN parsed[1].data[s]
                    /\ parsed[1].data[s][k] = Join(vs)

\* C2 amended: the value of a key that occurs n >= 1 times in a section is
\* the join by ", ", in textual order, of its values from the first non-empty
\* one on (of the last value alone when all are empty): empty occurrences
\* before the first non-empty one are dropped, later ones are kept
C2_MergeJoinsFromFirstNonEmpty ==
    TextParsed =>
        /\ parsed[1].ok
        /\ \A s \in TextSections, k \in TextKeys :
              LET vs == Occurrences(lines, <<>>, s, k)
              IN Len(vs) >= 1 =>
                    /\ s \in DOMAIN parsed[1].data
                    /\ k \in DOMAIN parsed[1].data[s]
                    /\ parsed[1].data[s][k] = Join(DropLeadingEmpty(vs))

C2_Witness ==
    /\ TextParsed
    /\ Occurrences(lines, <<>>, sContainer, sImage) = << <<>>, <<"a">>, <<"b">> >>
    /\ parsed[1].ok
    /\ parsed[1].data[sContainer][sImage] = <<"a", ",", " ", "b">>

\* the pair lines that stand under a header named s, in textual order
RECURSIVE PairLinesOf(_, _, _)
PairLinesOf(ls, cur, s) ==
    IF ls = <<>> THEN <<>>
    ELSE LET l == Head(ls)
         IN IF l.kind = "header" THEN PairLinesOf(Tail(ls), l.name, s)
            ELSE IF cur = s THEN <<l>> \o PairLinesOf(Tail(ls), cur, s)
                 ELSE PairLinesOf(Tail(ls), cur, s)

HeaderCount(ls, s) ==
    Cardinality({i \in 1..Len(ls) : ls[i].kind = "header" /\ ls[i].name = s})

\* the text with one header s followed by all the pair lines of s
OneOccurrence(ls, s) == <<[kind |-> "header", name |-> s, value |-> <<>>]>> \o PairLinesOf(ls, <<>>, s)

\* C24: a section name that heads several sections of a text gives one
\* section holding the keys of all of them, each key with the value it would
\* have were all those pair lines under one header, in the same order
C24_RepeatedHeadersMerge ==
    TextParsed =>
        \A s \in TextSections :
            HeaderCount(lines, s) >= 2 =>
               LET pairs == PairLinesOf(lines, <<>>, s)
                   once == parse_quadlet(render(OneOccurrence(lines, s)))
               IN /\ parsed[1].ok
                  /\ s \in DOMAIN parsed[1].data
                  /\ DOMAIN parsed[1].data[s] = {pairs[i].name : i \in 1..Len(pairs)}
                  /\ once.ok
                  /\ parsed[1].data[s] = once.data[s]

C24_Witness ==
    /\ TextParsed
    /\ lines = <<[kind |-> "header", name |-> sContainer, value |-> <<>>],
                 [kind |-> "pair", name |-> sImage, value |-> <<"a">>],
                 [kind |-> "header", name |-> sContainer, value |-> <<>>],
                 [kind |-> "pair", name |-> sImage, value |-> <<" ", "b">>]>>
    /\ parsed[1].ok
    /\ DOMAIN parsed[1].data = {sContainer}
    /\ parsed[1].data[sContainer][sImage] = <<"a", ",", " ", "b">>

\* the pieces of a value: the one sequence of texts free of ", " whose join
\* by ", " is the value
SubStrings(v) == {SubSeq(v, i, j) : i \in 1..(Len(v) + 1), j \in 0..Len(v)}

Pieces(v) ==
    CHOOSE ps \in SeqsUpTo(SubStrings(v), 1 + (Len(v) \div 2)) :
        /\ ps # <<>>
        /\ Join(ps) = v
        /\ \A i \in 1..Len(ps) : ~contains_str(ps[i], Separator)

\* the lines the claim lists for one section: header, key=piece lines, blank
SectionLines(d, section, order) ==
    << <<"[">> \o section \o <<"]">> >>
    \o Flatten([j \in 1..Len(order) |->
          LET ps == Pieces(d[section][order[j]])
          IN [i \in 1..Len(ps) |-> order[j] \o <<"=">> \o ps[i]]])
    \o << <<>> >>

DocumentLines(d, so, ko) ==
    Flatten([i \in 1..Len(so) |-> SectionLines(d, so[i], ko[so[i]])])

Serialized == origin = "doc" /\ dpc \in {"text", "parsed", "done"}

\* C11: the text is, for every section exactly once (in some order), the line
\* [name], then for every key (in some order) one line key=piece per piece of
\* the value split on ", ", in order, then one blank line, and nothing else
C11_SerializedLayout ==
    Serialized =>
        \E so \in SectionOrders(doc), ko \in KeyOrders(doc) :
            LET ls == DocumentLines(doc, so, ko)
            IN content = Flatten([i \in 1..Len(ls) |-> ls[i] \o <<"\n">>])

C11_Witness ==
    /\ Serialized
    /\ DOMAIN doc = {sContainer}
    /\ DOMAIN doc[sContainer] = {sImage}
    /\ doc[sContainer][sImage] = <<",", " ">>
    /\ content = <<"[">> \o sContainer \o <<"]", "\n">>
                 \o sImage \o <<"=", "\n">> \o sImage \o <<"=", "\n", "\n">>

\* the raw values of the pair lines of key k under headers named s
RECURSIVE RawOccurrences(_, _, _, _)
RawOccurrences(ls, cur, s, k) ==
    IF ls = <<>> THEN <<>>
    ELSE LET l == Head(ls)
         IN IF l.kind = "header" THEN RawOccurrences(Tail(ls), l.name, s, k)
            ELSE IF cur = s /\ l.name = k
                 THEN <<l.value>> \o RawOccurrences(Tail(ls), cur, s, k)
                 ELSE RawOccurrences(Tail(ls), cur, s, k)

ParsedAndValidated == dpc = "done" /\ origin = "text"

\* C20 as stated: a text that parses, with at least one Image line in its
\* Container section and no ContainerName line whose value contains a space,
\* validates to zero findings, however often a key occurs
C20_WellFormedNoFindings ==
    (/\ ParsedAndValidated
     /\ RawOccurrences(lines, <<>>, sContainer, sImage) # <<>>
     /\ LET names == RawOccurrences(lines, <<>>, sContainer, sContainerName)
        IN \A i \in 1..Len(names) : \A j \in 1..Len(names[i]) : names[i][j] # " ")
        => errors[1] = <<>>

\* C20 amended: such a text validates to zero findings when, in addition, its
\* ContainerName lines, after the empty ones that precede the first non-empty
\* value are left out, number at most one (two or more are merged with ", ",
\* which contains a space); Image may occur any number of times, and the
\* values are taken trimmed
C20_WellFormedSingleName ==
    (/\ ParsedAndValidated
     /\ Occurrences(lines, <<>>, sContainer, sImage) # <<>>
     /\ LET names == Occurrences(lines, <<>>, sContainer, sContainerName)
        IN /\ \A i \in 1..Len(names) : \A j \in 1..Len(names[i]) : names[i][j] # " "
           /\ Len(DropLeadingEmpty(names)) <= 1)
        => errors[1] = <<>>

C20_Witness ==
    /\ ParsedAndValidated
    /\ Occurrences(lines, <<>>, sContainer, sImage) = << <<"a">>, <<"b">> >>
    /\ Occurrences(lines, <<>>, sContainer, sContainerName) = << <<"b">> >>
    /\ errors[1] = <<>>

\* the Document the validator was run on
Validated == IF dpc = "validated" THEN doc ELSE parsed[1].data

CountField(errs, field) == Cardinality({i \in 1..Len(errs) : errs[i].field = field})

\* C9: the findings contain one tagged "Global" exactly when the Document has
\* no section named Container, and it is then the only finding
C9_GlobalFinding ==
    errors # <<>> =>
        /\ (CountField(errors[1], "Global") >= 1) <=> (sContainer \notin DOMAIN Validated)
        /\ (CountField(errors[1], "Global") >= 1) => Len(errors[1]) = 1

C9_Witness ==
    /\ errors # <<>>
    /\ DOMAIN Validated = {sUnit}
    /\ DOMAIN Validated[sUnit] # {}
    /\ Len(errors[1]) = 1
    /\ errors[1][1].field = "Global"

\* C10: for a Document with a Container section there is exactly one
\* Container.Image finding iff the key Image is absent (none otherwise),
\* exactly one Container.ContainerName finding iff the key ContainerName is
\* present with a space in its value (none otherwise), and no other finding
C10_IndependentRules ==
    (errors # <<>> /\ sContainer \in DOMAIN Validated) =>
        LET section == Validated[sContainer]
            image == IF sImage \notin DOMAIN section THEN 1 ELSE 0
            name == IF sContainerName \in DOMAIN section
                       /\ \E i \in 1..Len(section[sContainerName]) :
                              section[sContainerName][i] = " "
                    THEN 1 ELSE 0
        IN /\ CountField(errors[1], "Container.Image") = image
           /\ CountField(errors[1], "Container.ContainerName") = name
           /\ Len(errors[1]) = image + name

C10_Witness ==
    /\ errors # <<>>
    /\ sContainer \in DOMAIN Validated
    /\ sImage \notin DOMAIN Validated[sContainer]
    /\ sContainerName \in DOMAIN Validated[sContainer]
    /\ Validated[sContainer][sContainerName] = <<"a", " ">>
    /\ Len(errors[1]) = 2
    /\ CountField(errors[1], "Container.Image") = 1
    /\ CountField(errors[1], "Container.ContainerName") = 1

----------------------------------------------------------------------------
\* Claims about the type registry (checked under RegistrySpec)

\* the six (variant, extension) pairs of the registry, written out
RegistryTable ==
    {<<"Container", <<".","c","o","n","t","a","i","n","e","r">> >>,
     <<"Network", <<".","n","e","t","w","o","r","k">> >>,
     <<"Volume", <<".","v","o","l","u","m","e">> >>,
     <<"Kube", <<".","k","u","b","e">> >>,
     <<"Pod", <<".","p","o","d">> >>,
     <<"Image", <<".","i","m","a","g","e">> >>}

\* C6: from_extension(extension(t)) = Some(t) for each variant t, extension is
\* injective, and from_extension(s) = None for every s that is no extension
C6_RegistryBijection ==
    /\ lookup.op = "extension" =>
          /\ lookup.back = <<lookup.kind>>
          /\ <<lookup.kind, lookup.ext>> \in RegistryTable
          /\ \A u \in QuadletTypes \ {lookup.kind} : extension(u) # lookup.ext
    /\ lookup.op = "from_extension" =>
          /\ (\A row \in RegistryTable : row[2] # lookup.ext) => lookup.kind = <<>>
          /\ (\A row \in RegistryTable : row[2] = lookup.ext => lookup.kind = <<row[1]>>)

C6_Witness ==
    /\ lookup.op = "from_extension"
    /\ lookup.ext = <<"c","o","n","t","a","i","n","e","r">>
    /\ lookup.kind = <<>>

----------------------------------------------------------------------------
\* Claims about get_status and discovery (checked under Spec)

\* C4: after a successful query the status is Active for active, reloading and
\* activating, Inactive for inactive and deactivating, Failed for failed and
\* Unknown for every other raw string
C4_StatusMapping ==
    (gs.called /\ gs.reply.fail = "none") =>
        LET raw == gs.reply.raw
        IN /\ raw \in {"active", "reloading", "activating"} => gs.status = "Active"
           /\ raw \in {"inactive", "deactivating"} => gs.status = "Inactive"
           /\ raw = "failed" => gs.status = "Failed"
           /\ raw \notin {"active", "reloading", "activating", "inactive",
                          "deactivating", "failed"} => gs.status = "Unknown"

C4_Witness ==
    /\ gs.called
    /\ gs.reply.fail = "none"
    /\ gs.reply.raw = "activating"
    /\ gs.status = "Active"

\* C5: get_status always returns a status, and Inactive whenever connecting,
\* building the manager proxy, looking up <name>.service, building the unit
\* proxy or reading the activation state fails
C5_QueryFailureSwallowed ==
    gs.called =>
        /\ gs.status \in {"Active", "Inactive", "Failed", "Activating", "Deactivating", "Unknown"}
        /\ gs.unit = gs.name \o <<".","s","e","r","v","i","c","e">>
        /\ gs.reply.fail \in {"connect", "manager", "get_unit", "path", "build", "active_state"}
              => gs.status = "Inactive"

C5_Witness ==
    /\ gs.called
    /\ gs.reply.fail = "get_unit"
    /\ gs.status = "Inactive"

\* a discovery pass that returned Ok without an entry whose type was unreadable
DiscoveryDone == disc.pc = "returned" /\ disc.result = "Ok" /\ disc.skipped = {}

\* the regular files of the scanned directory whose name ends in row's extension
FilesOf(row) == {f \in disc.scanned : files[f].is_file /\ ends_with(f, row[2])}

\* the artifacts returned for file f as an artifact of row's kind
ArtifactsOf(f, row) ==
    {i \in 1..Len(disc.infos) :
        disc.infos[i].kind = row[1] /\ disc.infos[i].name \o row[2] = f}

\* C3: discovery returns exactly one artifact, of the extension's kind, for
\* every regular file whose name ends in a registry extension, and none for any
\* other file; so the result is non-empty when there is such a file
C3_DiscoveryScoping ==
    DiscoveryDone =>
        /\ \A row \in RegistryTable : \A f \in FilesOf(row) :
              Cardinality(ArtifactsOf(f, row)) = 1
        /\ \A i \in 1..Len(disc.infos) :
              \E row \in RegistryTable : \E f \in FilesOf(row) : i \in ArtifactsOf(f, row)
        /\ (\E row \in RegistryTable : FilesOf(row) # {}) => disc.infos # <<>>

ExpectedStatus(raw) ==
    IF raw = "active" THEN "Active" ELSE IF raw = "failed" THEN "Failed" ELSE "Unknown"

ContainerRow == <<"Container", <<".","c","o","n","t","a","i","n","e","r">> >>

C13_PassAndQueryEnd ==
    /\ (disc.pc = "loop") ~> (disc.pc = "returned")
    /\ gs.waiting ~> gs.called

SecondPassDone == disc.pc = "returned" /\ disc.result = "Ok" /\ disc.previous # <<>>

\* C14: a second pass over the unchanged directory returns the same set of
\* (name, kind) pairs as the first, whatever the unit manager answered
C14_SamePairsAgain ==
    SecondPassDone =>
        {<<disc.infos[i].name, disc.infos[i].kind>> : i \in 1..Len(disc.infos)}
            = disc.previous[1]

C14_Witness ==
    /\ SecondPassDone
    /\ disc.skipped = {}
    /\ <<"w","e","b",".","c","o","n","t","a","i","n","e","r">> \in disc.scanned
    /\ <<"d","a","t","a",".","v","o","l","u","m","e">> \in disc.scanned
    /\ disc.answers[<<"w","e","b",".","c","o","n","t","a","i","n","e","r">>].fail = "get_unit"
    /\ {<<disc.infos[i].name, disc.infos[i].kind>> : i \in 1..Len(disc.infos)}
          = disc.previous[1]

----------------------------------------------------------------------------
\* Claims about the API (checked under ApiSpec)

\* the extension of the request is not a token of the registry
UnknownType(ext) == \A row \in RegistryTable : row[2] # <<".">> \o ext

\* C7: read, save and delete with an extension outside the registry end with
\* an error response that names the unsupported type, and touch neither the
\* file store nor the unit manager
C7_UnknownTypeRejected ==
    (api.op \in {"read", "save", "delete"} /\ UnknownType(api.extension)) =>
        /\ ~api.panicked
        /\ api.response.status \in {"BAD_REQUEST", "NOT_FOUND", "INTERNAL_SERVER_ERROR"}
        /\ \E i \in 1..Len(api.response.about) : api.response.about[i] = api.extension
        /\ api.fs_ops = <<>>
        /\ api.um_calls = <<>>


\* <name><extension of kind> for the name and type token of the last request
OwnFile == api.name \o <<".">> \o api.extension

HasSlash(path) == \E i \in 1..Len(path) : path[i] = "/"

\* the last request built its artifact and went on to the file store
Handled(op) == api.op = op /\ api.fs_ops # <<>>

\* C15: every file a save or delete writes or removes is a direct child of the
\* quadlet directory named <name><extension of kind>, for every name the API
\* accepts; no entry of the store lies outside the directory or below it
C15_FlatDirectory ==
    /\ \A path \in DOMAIN files : ~HasSlash(path)
    /\ (Handled("save") \/ Handled("delete")) =>
          \A i \in 1..Len(api.fs_ops) :
             api.fs_ops[i].op \in {"write", "remove_file"} =>
                api.fs_ops[i].path = OwnFile /\ ~HasSlash(OwnFile)

\* the write of the last save succeeded
Saved ==
    /\ Handled("save")
    /\ \E i \in 1..Len(api.calls) : api.calls[i].call = "write" /\ api.calls[i].ok

\* the kind the registry gives to the type token of the last request
OwnKind == CHOOSE kind \in QuadletTypes : <<kind, <<".">> \o api.extension>> \in RegistryTable

\* C16: after a successful save, Quadlet::read of <dir>/<name><extension>
\* succeeds with the same name, kind and content; after a successful delete
\* it fails and the artifact is not enumerated
C16_SaveThenRead ==
    /\ (Saved /\ api.read_back # <<>> /\ api.read_back[1].io_ok) =>
          LET got == api.read_back[1].result
          IN /\ got.ok
             /\ got.quadlet = [name |-> api.name, kind |-> OwnKind, content |-> api.content]
    /\ (Handled("delete") /\ api.response.status = "OK" /\ api.read_back # <<>>) =>
          /\ ~api.read_back[1].result.ok
          /\ \A q \in api.listed[1].quadlets : ~(q.name = api.name /\ q.kind = OwnKind)

\* C17: a save or delete of (name, kind) changes no file but <name><extension>
\* (so no other pair's file), and a delete that fails changes nothing
C17_OnlyOwnFile ==
    [][/\ \A path \in DOMAIN files \cup DOMAIN files' :
             path # api'.name \o <<".">> \o api'.extension =>
                /\ path \in DOMAIN files
                /\ path \in DOMAIN files'
                /\ files'[path] = files[path]
       /\ (api'.op = "delete" /\ api'.response.status # "OK") => files' = files]_vars

IsUnitManagerCall(c) == c.call \in {"connect", "manager", "reload"}

\* C18: in a save the unit manager is called only after a write that
\* succeeded; a failed write gives an error response and no reload; a reload
\* that fails after the write gives an error response and leaves the new
\* content in the file; a success response means write and reload both
\* succeeded, in that order
C18_ReloadAfterWrite ==
    Handled("save") =>
        LET calls == api.calls
            writes == {i \in 1..Len(calls) : calls[i].call = "write"}
            um == {i \in 1..Len(calls) : IsUnitManagerCall(calls[i])}
        IN /\ \A i \in um : \E j \in writes : j < i /\ calls[j].ok
           /\ (\A j \in writes : ~calls[j].ok) =>
                 um = {} /\ api.response.status = "INTERNAL_SERVER_ERROR"
           /\ (\E i \in um : ~calls[i].ok) =>
                 /\ api.response.status = "INTERNAL_SERVER_ERROR"
                 /\ \E path \in DOMAIN files :
                       files[path] = [is_file |-> TRUE, content |-> api.content]
                       /\ \E k \in 1..Len(api.fs_ops) :
                             api.fs_ops[k] = [op |-> "write", path |-> path]
           /\ api.response.status = "OK" =>
                 \E j \in writes : \E i \in um :
                    j < i /\ calls[j].ok /\ calls[i] = [call |-> "reload", ok |-> TRUE]

C18_Witness ==
    /\ Handled("save")
    /\ api.name = <<"w","e","b">>
    /\ api.extension = <<"c","o","n","t","a","i","n","e","r">>
    /\ api.calls[Len(api.calls)] = [call |-> "reload", ok |-> FALSE]
    /\ api.response.status = "INTERNAL_SERVER_ERROR"
    /\ files[<<"w","e","b",".","c","o","n","t","a","i","n","e","r">>].content = <<"x">>


----------------------------------------------------------------------------
\* Claims about the filters of the discover handler (checked under FilterSpec)

\* the kind a filter names, with or without the leading dot
KindsNamed(filter) ==
    {row[1] : row \in {r \in RegistryTable : r[2] = filter \/ r[2] = <<".">> \o filter}}

TransitionalFilter ==
    /\ api.status # <<>>
    /\ LET asked == [i \in 1..Len(api.status[1]) |->
                        IF api.status[1][i] = "D" THEN "d" ELSE api.status[1][i]]
       IN asked \in {<<"a","c","t","i","v","a","t","i","n","g">>,
                     <<"d","e","a","c","t","i","v","a","t","i","n","g">>}

\* C23: every status that get_status and discovery hand on is Active,
\* Inactive, Failed or Unknown, never Activating or Deactivating, so a
\* discover request whose status filter is activating or deactivating is
\* answered with an empty list
C23_NoTransitionalStatus ==
    (api.op = "discover" /\ api.discovered.ok) =>
        /\ \A i \in 1..Len(api.discovered.quadlets) :
              api.discovered.quadlets[i].status
                 \in {<<"Active">>, <<"Inactive">>, <<"Failed">>, <<"Unknown">>}
        /\ TransitionalFilter =>
              api.response.status = "OK" /\ api.response.quadlets = <<>>

C23_Witness ==
    /\ api.op = "discover"
    /\ api.kind = <<>>
    /\ api.status = << <<"a","c","t","i","v","a","t","i","n","g">> >>
    /\ Len(api.discovered.quadlets) = 2
    /\ api.discovered.quadlets[1].kind = "Container"
    /\ api.discovered.quadlets[1].status = <<"Active">>
    /\ api.response.status = "OK"
    /\ api.response.quadlets = <<>>


----------------------------------------------------------------------------
\* Claims about the names discovery derives (checked under Spec)

----------------------------------------------------------------------------
\* Claims about concurrent saves (checked under RaceSpec)

BothSaved == api.op = "race" /\ \A i \in {1, 2} : api.saves[i].pc = "ok"

Saved1 == api.saves[1].quadlet.content
Saved2 == api.saves[2].quadlet.content
Final == files[RacePath].content

\* C22 as stated: when two concurrent saves of the same artifact both return
\* success, the file holds the complete content of one of the two
C22_OneSaveWins ==
    BothSaved => Final = Saved1 \/ Final = Saved2

\* C22 amended: the file is then at least as long as one of the two contents
\* and no longer than the longer one, every byte of it is the byte one of the
\* contents has at that position, or a zero byte beyond the end of the shorter
\* content, it is not empty, and it is the saved content when both saves
\* wrote the same content; it need not be the content of either save
C22_BytesOfEitherSave ==
    BothSaved =>
        LET shorter == IF Len(Saved1) <= Len(Saved2) THEN Len(Saved1) ELSE Len(Saved2)
            longer == IF Len(Saved1) <= Len(Saved2) THEN Len(Saved2) ELSE Len(Saved1)
        IN /\ Final # <<>>
           /\ Len(Final) \in {Len(Saved1), Len(Saved2)}
           /\ \A p \in 1..Len(Final) :
                 \/ p <= Len(Saved1) /\ Final[p] = Saved1[p]
                 \/ p <= Len(Saved2) /\ Final[p] = Saved2[p]
                 \/ p > shorter /\ p < longer /\ Final[p] = "NUL"
           /\ Saved1 = Saved2 => Final = Saved1

C22_Witness ==
    /\ BothSaved
    /\ Saved1 = <<"x">>
    /\ Saved2 = <<"y", "z">>
    /\ Final = <<"x", "z">>

====
